---- MODULE Spec2Model ----
(***************************************************************************)
(* Model of submit-request.py: build a transfer request, POST it to the    *)
(* MQ web server, then query the transfer status with GET.                 *)
(*                                                                         *)
(* Python values whose run-time type matters are tagged records            *)
(* ([type, val]); the web server's answers are inputs drawn at each call.  *)
(* The module globals of lines 41-60 are the variable config: the sample   *)
(* values of the file, or the sample with one value edited.  The user id   *)
(* and the password are sequences of characters, so that their bytes can   *)
(* be encoded.                                                             *)
(***************************************************************************)
EXTENDS Integers, Sequences, FiniteSets, TLC

VARIABLES config, pc, transferJson, httpResponse, postResponse, getStatus, e, out, calls

vars == <<config, pc, transferJson, httpResponse, postResponse, getStatus, e, out, calls>>

---------------------------------------------------------------------------
(* Bounds of the model *)

\* longest transferSet.item array the server answers with
MaxItems == 2

---------------------------------------------------------------------------
(* Configuration (module globals, lines 35-60): the sample values *)

transferRequestUrl == "/ibmmq/rest/v2/admin/mft/transfer"
mqWebUserId == <<"m", "f", "t", "u", "s", "e", "r">>
mqWebPassword == <<"m", "f", "t", "p", "a", "s", "s", "w", "0", "r", "d">>
sourceAgentName == "SRC"
destinationAgentName == "DEST"
sourceQMName == "SRCQM"
destinationQMName == "DESTQM"
sourceItemName == "/usr/srcdir"
destinationItemName == "/usr/destdir"
sourceItemType == "file"
destinationItemType == "directory"

\* the globals as the file sets them
SampleConfig ==
    [mqWebUserId |-> mqWebUserId, mqWebPassword |-> mqWebPassword,
     sourceAgentName |-> sourceAgentName,
     destinationAgentName |-> destinationAgentName,
     sourceQMName |-> sourceQMName, destinationQMName |-> destinationQMName,
     sourceItemName |-> sourceItemName, destinationItemName |-> destinationItemName,
     sourceItemType |-> sourceItemType, destinationItemType |-> destinationItemType]

\* the fields a transfer request is built from
RequiredFields ==
    {"sourceAgentName", "destinationAgentName", "sourceQMName", "destinationQMName",
     "sourceItemName", "destinationItemName", "sourceItemType", "destinationItemType"}

\* other credentials a user may set: <<user id, password>>
Credentials ==
    {<<mqWebUserId, mqWebPassword>>, <<(<<"a">>), <<"p">> >>, <<(<<"a">>), <<>> >>}

\* the configurations: the sample, the sample with one required field set
\* to the empty string, or the sample with other credentials
Configs ==
    {SampleConfig}
    \cup {[SampleConfig EXCEPT ![f] = ""] : f \in RequiredFields}
    \cup {[SampleConfig EXCEPT !.mqWebUserId = cr[1], !.mqWebPassword = cr[2]] :
            cr \in Credentials}

\* http.client status constants the program compares against
OK == 200
ACCEPTED == 202
NOT_FOUND == 404

---------------------------------------------------------------------------
(* Python values and the operations the program applies to them *)

PyStr(s) == [type |-> "str", val |-> s]
PyInt(n) == [type |-> "int", val |-> n]
None == [type |-> "NoneType"]

\* result of evaluating an expression or calling a function:
\* exc is the exception raised ("none" if it returned), ret the value,
\* out the lines printed before it returned or raised
Return(v, lines) == [exc |-> "none", ret |-> v, out |-> lines]
Raise(x, lines) == [exc |-> x, ret |-> None, out |-> lines]

\* a + b where a is a str: only str + str is defined, anything else is a TypeError
Add(a, b) ==
    IF a.type = "str" /\ b.type = "str"
    THEN Return(PyStr(a.val \o b.val), <<>>)
    ELSE Raise("TypeError", <<>>)

\* a bytes object, val being its (ASCII) content
PyBytes(s) == [type |-> "bytes", val |-> s]

\* str(n) for an int; for a bytes object str() is its literal form b'...'
str(n) ==
    IF n.type = "bytes" THEN PyStr("b'" \o n.val \o "'")
    ELSE PyStr(ToString(n.val))

\* print(a + b): the line is printed only if the concatenation succeeds
PrintAdd(a, b) ==
    LET s == Add(a, b)
    IN  IF s.exc = "none" THEN Return(None, <<s.ret.val>>) ELSE s

---------------------------------------------------------------------------
(* buildTransferRequest, lines 63-107 *)

Quote(s) == "\"" \o s \o "\""

\* json.dumps of a dict of two string members
DumpsPair(k1, v1, k2, v2) ==
    "{" \o Quote(k1) \o ": " \o Quote(v1) \o ", " \o Quote(k2) \o ": " \o Quote(v2) \o "}"

RECURSIVE JoinItems(_)
JoinItems(items) ==
    IF Len(items) = 0 THEN ""
    ELSE IF Len(items) = 1 THEN items[1]
    ELSE items[1] \o ", " \o JoinItems(Tail(items))

\* json.dumps of one transfer item: {"source": {...}, "destination": {...}}
DumpsItem(item) ==
    "{" \o Quote("source") \o ": "
        \o DumpsPair("name", item.source.name, "type", item.source.type) \o ", "
        \o Quote("destination") \o ": "
        \o DumpsPair("name", item.destination.name, "type", item.destination.type) \o "}"

\* json.dumps(transferRequest)
dumps(req) ==
    "{" \o Quote("sourceAgent") \o ": "
        \o DumpsPair("qmgrName", req.sourceAgent.qmgrName, "name", req.sourceAgent.name) \o ", "
        \o Quote("destinationAgent") \o ": "
        \o DumpsPair("qmgrName", req.destinationAgent.qmgrName, "name", req.destinationAgent.name) \o ", "
        \o Quote("transferSet") \o ": {" \o Quote("item") \o ": ["
        \o JoinItems([i \in 1..Len(req.transferSet.item) |-> DumpsItem(req.transferSet.item[i])])
        \o "]}}"

\* the item pairs the globals configure: one source and one destination item
ConfiguredItemPairs == 1

\* variant: the item is not added to the transferSet array
transferRequest_NoItems ==
    LET sourceAgentAttributes ==
            [qmgrName |-> config.sourceQMName, name |-> config.sourceAgentName]
        destinationAgentAttributes ==
            [qmgrName |-> config.destinationQMName, name |-> config.destinationAgentName]
        transferSet == [item |-> <<>>]
    IN  [sourceAgent |-> sourceAgentAttributes,
         destinationAgent |-> destinationAgentAttributes,
         transferSet |-> transferSet]

transferRequest ==
    LET sourceAgentAttributes ==
            [qmgrName |-> config.sourceQMName, name |-> config.sourceAgentName]
        destinationAgentAttributes ==
            [qmgrName |-> config.destinationQMName, name |-> config.destinationAgentName]
        sourceItem == [name |-> config.sourceItemName, type |-> config.sourceItemType]
        destinationItem ==
            [name |-> config.destinationItemName, type |-> config.destinationItemType]
        item == [source |-> sourceItem, destination |-> destinationItem]
        transferSet == [item |-> <<item>>]
    IN  [sourceAgent |-> sourceAgentAttributes,
         destinationAgent |-> destinationAgentAttributes,
         transferSet |-> transferSet]

buildTransferRequest == dumps(transferRequest)

---------------------------------------------------------------------------
(* The web server: the answers one HTTP call can get *)

Locations == {"/ibmmq/rest/v2/admin/mft/transfer/414d51", ""}
PostStatuses == {200, 202, 400, 401, 500}
GetStatuses == {200, 404, 500}
TransferStates == {"completed", "failed", "inProgress"}
ItemStates == {"completed", "failed"}
Descriptions == {"disk full", "no access"}

SeqsUpTo(S, n) == UNION {[1..k -> S] : k \in 0..n}

\* transferSet.item[i]: status.state and an optional status.description
ItemStatuses ==
    [state : ItemStates] \cup [state : ItemStates, description : Descriptions]
Items == [status : ItemStatuses]

\* transfer[0]: id, status.state and an optional transferSet
Transfers ==
    [id : {"414d51"}, status : [state : TransferStates]]
    \cup [id : {"414d51"}, status : [state : TransferStates],
          transferSet : [item : SeqsUpTo(Items, MaxItems)]]

\* JSON documents of a 200 answer: {} , {"transfer": []} , {"transfer": [t]}
EmptyObject == [k \in {} |-> ""]
Documents ==
    {EmptyObject} \cup [transfer : {<<>>}] \cup [transfer : {<<t>> : t \in Transfers}]

\* the body of an answer: text that is not JSON, or a JSON document
Bodies == {[wellFormed |-> FALSE]} \cup [wellFormed : {TRUE}, doc : Documents]

\* connectFail: the connection cannot be made (request raises);
\* responseFail: the connection breaks before the answer is read
TransportFailures == {[kind |-> "connectFail"], [kind |-> "responseFail"]}

PostReplies ==
    TransportFailures
    \cup [kind : {"response"}, status : PostStatuses,
          location : {None} \cup {PyStr(l) : l \in Locations}]

GetReplies ==
    TransportFailures
    \cup [kind : {"response"}, status : {OK}, body : Bodies]
    \cup [kind : {"response"}, status : GetStatuses \ {OK}]

---------------------------------------------------------------------------
(* buildHTTPHeaders, lines 113-117 *)

\* the code point of a character of the credentials
Ord(c) ==
    CASE c = "0" -> 48 [] c = ":" -> 58 [] c = "a" -> 97 [] c = "d" -> 100
      [] c = "e" -> 101 [] c = "f" -> 102 [] c = "m" -> 109 [] c = "p" -> 112
      [] c = "r" -> 114 [] c = "s" -> 115 [] c = "t" -> 116 [] c = "u" -> 117
      [] c = "w" -> 119

\* bytes(s, 'utf-8') for a string of ASCII characters: one byte per character
bytes(s) == [i \in 1..Len(s) |-> Ord(s[i])]

B64Alphabet ==
    <<
       "A", "B", "C", "D", "E", "F", "G", "H", "I", "J", "K", "L", "M", "N", "O", "P",
       "Q", "R", "S", "T", "U", "V", "W", "X", "Y", "Z", "a", "b", "c", "d", "e", "f",
       "g", "h", "i", "j", "k", "l", "m", "n", "o", "p", "q", "r", "s", "t", "u", "v",
       "w", "x", "y", "z", "0", "1", "2", "3", "4", "5", "6", "7", "8", "9", "+", "/" >>
B64(n) == B64Alphabet[n + 1]

\* the base64 text of the k-th group of 3 bytes: 4 characters, padded with
\* "=" when the group has only 1 or 2 bytes
B64Group(bs, k) ==
    LET i == 3 * k - 2
    IN  IF Len(bs) = i
        THEN B64(bs[i] \div 4) \o B64((bs[i] % 4) * 16) \o "=="
        ELSE IF Len(bs) = i + 1
        THEN B64(bs[i] \div 4) \o B64((bs[i] % 4) * 16 + bs[i + 1] \div 16)
             \o B64((bs[i + 1] % 16) * 4) \o "="
        ELSE B64(bs[i] \div 4) \o B64((bs[i] % 4) * 16 + bs[i + 1] \div 16)
             \o B64((bs[i + 1] % 16) * 4 + bs[i + 2] \div 64) \o B64(bs[i + 2] % 64)

RECURSIVE B64Groups(_, _)
B64Groups(bs, k) ==
    IF 3 * k - 2 > Len(bs) THEN "" ELSE B64Group(bs, k) \o B64Groups(bs, k + 1)

\* the base64 text of a sequence of bytes (b is bs, evaluated once)
B64Text(bs) == CHOOSE text \in {B64Groups(b, 1) : b \in {bs}} : TRUE

\* base64.b64encode: bytes in, bytes out
b64encode(bs) == PyBytes(B64Text(bs))

buildHTTPHeaders(userId, password) ==
    LET encodedUidPwd == b64encode(bytes(userId \o <<":">> \o password))
    IN  ("Content-type" :> "application/json")
        @@ ("ibm-mq-rest-csrf-token" :> "")
        @@ ("Authorization" :> Add(PyStr("Basic "), str(encodedUidPwd)).ret.val)

---------------------------------------------------------------------------
(* doPostTransfer, lines 125-135 *)

\* variant: every 2xx answer is taken as acceptance
doPostTransfer_Any2xx(url, body, userId, password, reply) ==
    LET posted == <<"Posted transfer request successfully">>
    IN  IF reply.kind = "connectFail" THEN Raise("OSError", <<>>)
        ELSE IF reply.kind = "responseFail" THEN Raise("HTTPException", posted)
        ELSE IF reply.status \div 100 = 2
        THEN LET p == PrintAdd(PyStr("Transfer requested accepted. Status URL "),
                               reply.location)
             IN  IF p.exc # "none" THEN Raise(p.exc, posted)
                 ELSE Return(reply.location, posted \o p.out)
        ELSE LET p == PrintAdd(PyStr("An error occurred while posting transfer request. HTTP response code: "),
                               str(PyInt(reply.status)))
             IN  Return(PyInt(reply.status), posted \o p.out)

\* variant: a rejected submission returns its status code as text
doPostTransfer_StrStatus(url, body, userId, password, reply) ==
    LET posted == <<"Posted transfer request successfully">>
    IN  IF reply.kind = "connectFail" THEN Raise("OSError", <<>>)
        ELSE IF reply.kind = "responseFail" THEN Raise("HTTPException", posted)
        ELSE IF reply.status = ACCEPTED
        THEN LET p == PrintAdd(PyStr("Transfer requested accepted. Status URL "),
                               reply.location)
             IN  IF p.exc # "none" THEN Raise(p.exc, posted)
                 ELSE Return(reply.location, posted \o p.out)
        ELSE LET p == PrintAdd(PyStr("An error occurred while posting transfer request. HTTP response code: "),
                               str(PyInt(reply.status)))
             IN  Return(str(PyInt(reply.status)), posted \o p.out)

\* variant: the acceptance message of line 131 is not printed
doPostTransfer_NoMessage(url, body, userId, password, reply) ==
    LET posted == <<"Posted transfer request successfully">>
    IN  IF reply.kind = "connectFail" THEN Raise("OSError", <<>>)
        ELSE IF reply.kind = "responseFail" THEN Raise("HTTPException", posted)
        ELSE IF reply.status = ACCEPTED
        THEN Return(reply.location, posted)
        ELSE LET p == PrintAdd(PyStr("An error occurred while posting transfer request. HTTP response code: "),
                               str(PyInt(reply.status)))
             IN  Return(PyInt(reply.status), posted \o p.out)

doPostTransfer(url, body, userId, password, reply) ==
    LET posted == <<"Posted transfer request successfully">>
    IN  IF reply.kind = "connectFail" THEN Raise("OSError", <<>>)
        ELSE IF reply.kind = "responseFail" THEN Raise("HTTPException", posted)
        ELSE IF reply.status = ACCEPTED
        THEN LET p == PrintAdd(PyStr("Transfer requested accepted. Status URL "),
                               reply.location)
             IN  IF p.exc # "none" THEN Raise(p.exc, posted)
                 ELSE Return(reply.location, posted \o p.out)
        ELSE LET p == PrintAdd(PyStr("An error occurred while posting transfer request. HTTP response code: "),
                               str(PyInt(reply.status)))
             IN  Return(PyInt(reply.status), posted \o p.out)

---------------------------------------------------------------------------
(* doGetTransferStatus, lines 142-163 *)

\* json.loads(resposeBody)
loads(body) ==
    IF body.wellFormed THEN Return(body.doc, <<>>) ELSE Raise("JSONDecodeError", <<>>)

\* the loop of lines 159-161: prints the description of each failed item,
\* in order, until an item lookup raises
RECURSIVE PrintFailedItems(_)
PrintFailedItems(items) ==
    IF Len(items) = 0 THEN Return(None, <<>>)
    ELSE LET item == items[1]
         IN  IF item.status.state = "failed"
             THEN IF "description" \notin DOMAIN item.status
                  THEN Raise("KeyError", <<>>)
                  ELSE LET p == PrintAdd(PyStr("Error: "), PyStr(item.status.description))
                           rest == PrintFailedItems(Tail(items))
                       IN  [rest EXCEPT !.out = p.out \o rest.out]
             ELSE PrintFailedItems(Tail(items))

doGetTransferStatus(url, userId, password, reply) ==
    IF reply.kind = "connectFail" THEN Raise("OSError", <<>>)
    ELSE IF reply.kind = "responseFail" THEN Raise("HTTPException", <<>>)
    ELSE IF reply.status # OK
    THEN LET p == PrintAdd(PyStr("Response received for GET request: "),
                           PyInt(reply.status))
         IN  IF p.exc # "none" THEN p
             ELSE Return(PyInt(reply.status), p.out)
    ELSE LET parsed == loads(reply.body)
         IN  IF parsed.exc # "none" THEN parsed
             ELSE LET transferStatus == parsed.ret
                  IN  IF "transfer" \notin DOMAIN transferStatus THEN Raise("KeyError", <<>>)
                      ELSE IF Len(transferStatus.transfer) = 0 THEN Raise("IndexError", <<>>)
                      ELSE LET t == transferStatus.transfer[1]
                               transferId == t.id
                               state == t.status.state
                               line == <<"Status of transfer request with Id "
                                         \o transferId \o " is " \o state>>
                           IN  IF state = "failed" /\ "transferSet" \in DOMAIN t
                               THEN LET loop == PrintFailedItems(t.transferSet.item)
                                    IN  IF loop.exc # "none"
                                        THEN Raise(loop.exc, line \o loop.out)
                                        ELSE Return(PyInt(reply.status), line \o loop.out)
                               ELSE Return(PyInt(reply.status), line)

---------------------------------------------------------------------------
(* The workflow, lines 166-181 *)

\* line 172: type(postResponse) == str
IsStatusLocation(response) == response.type = "str"

\* variant: the status location is queried as it came
StatusUrl_Bare(location) == location.val

\* lines 174, 178: postResponse + "?attributes=*"
StatusUrl(location) == Add(location, PyStr("?attributes=*")).ret.val

\* variant: the test of line 177 inverted, as its comment words it
RetryNeeded_Inverted(status) == status.type = "int" /\ status.val # NOT_FOUND

\* line 177: getStatus == http.client.NOT_FOUND
RetryNeeded(status) == status.type = "int" /\ status.val = NOT_FOUND

\* variant: a rejected submission is posted again
AfterPost_Resubmit(response) == IF IsStatusLocation(response) THEN "get" ELSE "post"

\* where control goes after the POST returned (line 172)
AfterPost(response) == IF IsStatusLocation(response) THEN "get" ELSE "done"

\* variant: an error of a status query is not caught by the handler
AfterGet_Uncaught(at, r) ==
    IF r.exc # "none" THEN "crashed"
    ELSE IF at = "get" /\ RetryNeeded(r.ret) THEN "retry"
    ELSE "done"

\* variant: a first query that raised is retried like a not-found one
AfterGet_RetryOnError(at, r) ==
    IF r.exc # "none" THEN (IF at = "get" THEN "retry" ELSE "except")
    ELSE IF at = "get" /\ RetryNeeded(r.ret) THEN "retry"
    ELSE "done"

\* where control goes after the status query made at pc = at ended with
\* result r (lines 174-179)
AfterGet(at, r) ==
    IF r.exc # "none" THEN "except"
    ELSE IF at = "get" /\ RetryNeeded(r.ret) THEN "retry"
    ELSE "done"

\* one record per call the workflow makes: doPostTransfer, doGetTransferStatus
\* or a sleep (the program makes no sleep call: nothing stands between
\* lines 177 and 178, and the time module is not imported)
Call(fn, method, url, headers, reply, result) ==
    [fn |-> fn, method |-> method, url |-> url, headers |-> headers,
     reply |-> reply, result |-> result]

Init ==
    /\ config \in Configs
    /\ pc = "build"
    /\ transferJson = None
    /\ httpResponse = None
    /\ postResponse = None
    /\ getStatus = None
    /\ e = "none"
    /\ out = <<>>
    /\ calls = <<>>

\* line 166
BuildRequest ==
    /\ pc = "build"
    /\ transferJson' = PyStr(buildTransferRequest)
    /\ pc' = "post"
    /\ UNCHANGED <<config, httpResponse, postResponse, getStatus, e, out, calls>>

\* lines 171-172; httpResponse is what the connection answered (line 129), or
\* how it failed
SubmitTransfer ==
    /\ pc = "post"
    /\ \E reply \in PostReplies :
         LET r == doPostTransfer(transferRequestUrl, transferJson.val,
                                 config.mqWebUserId, config.mqWebPassword, reply)
         IN  /\ httpResponse' = reply
             /\ calls' = Append(calls, Call("doPostTransfer", "POST", transferRequestUrl,
                                            buildHTTPHeaders(config.mqWebUserId,
                                                             config.mqWebPassword),
                                            reply, r))
             /\ out' = out \o r.out
             /\ IF r.exc # "none"
                THEN /\ e' = r.exc
                     /\ pc' = "except"
                     /\ UNCHANGED postResponse
                ELSE /\ postResponse' = r.ret
                     /\ pc' = AfterPost(r.ret)
                     /\ UNCHANGED e
    /\ UNCHANGED <<config, transferJson, getStatus>>

\* lines 174-178: the first status query (pc = "get") and, when it returned
\* NOT_FOUND, the second one (pc = "retry")
QueryStatus ==
    /\ pc \in {"get", "retry"}
    /\ \E reply \in GetReplies :
         LET url == StatusUrl(postResponse)
             r == doGetTransferStatus(url, config.mqWebUserId, config.mqWebPassword, reply)
         IN  /\ httpResponse' = reply
             /\ calls' = Append(calls, Call("doGetTransferStatus", "GET", url,
                                            buildHTTPHeaders(config.mqWebUserId,
                                                             config.mqWebPassword),
                                            reply, r))
             /\ out' = out \o r.out
             /\ pc' = AfterGet(pc, r)
             /\ e' = IF r.exc # "none" THEN r.exc ELSE e
             /\ getStatus' = IF r.exc = "none" /\ pc = "get" THEN r.ret ELSE getStatus
    /\ UNCHANGED <<config, transferJson, postResponse>>

\* lines 179-181: except Exception as e: print(e)
HandleException ==
    /\ pc = "except"
    /\ out' = Append(out, e)
    /\ pc' = "done"
    /\ UNCHANGED <<config, transferJson, httpResponse, postResponse, getStatus, e, calls>>

Next == BuildRequest \/ SubmitTransfer \/ QueryStatus \/ HandleException

Spec == Init /\ [][Next]_vars

\* the script runs on: each statement is executed once control reaches it,
\* and each HTTP call ends with an answer or a failure
FairSpec == Spec /\ WF_vars(Next)

---------------------------------------------------------------------------
(* Observations on a run *)

Posts == SelectSeq(calls, LAMBDA c : c.method = "POST")
Gets == SelectSeq(calls, LAMBDA c : c.method = "GET")
Waits == SelectSeq(calls, LAMBDA c : c.fn = "sleep")

IsResponse(reply) == reply.kind = "response"
AcceptedAt(reply) ==
    IsResponse(reply) /\ reply.status = ACCEPTED /\ reply.location.type = "str"
IsNotFound(reply) == IsResponse(reply) /\ reply.status = NOT_FOUND
\* a 200 answer whose body is a JSON document with a transfer[0] entry
HasTransfer(reply) ==
    /\ IsResponse(reply) /\ reply.status = OK
    /\ reply.body.wellFormed
    /\ "transfer" \in DOMAIN reply.body.doc
    /\ Len(reply.body.doc.transfer) > 0
StateOf(reply) == reply.body.doc.transfer[1].status.state
\* the call returned the integer n
Returned(c, n) ==
    c.result.exc = "none" /\ c.result.ret.type = "int" /\ c.result.ret.val = n

TypeOK ==
    /\ pc \in {"build", "post", "get", "retry", "except", "done"}
    /\ Len(calls) <= 3

---------------------------------------------------------------------------
(* Claims *)

\* the run is over, its POST was accepted with a location, and its first
\* status query was answered 404
FirstQueryNotFound ==
    /\ pc = "done"
    /\ Len(Posts) = 1 /\ AcceptedAt(Posts[1].reply)
    /\ Len(Gets) >= 1 /\ IsNotFound(Gets[1].reply)

\* a sleep stands between the first and the second status query
WaitBetweenQueries ==
    \E i, j, k \in DOMAIN calls :
        /\ i < j /\ j < k
        /\ calls[i].method = "GET" /\ calls[j].fn = "sleep" /\ calls[k].method = "GET"

\* C1: when the first status query is answered 404 and the second 200 with
\* state "completed", a finished run has made exactly two GETs, with a wait
\* between them, and the second query resolved (returned 200).
C1_NotFoundThenCompleted ==
    (/\ FirstQueryNotFound
     /\ Len(Gets) >= 2 => (HasTransfer(Gets[2].reply) /\ StateOf(Gets[2].reply) = "completed"))
    => /\ Len(Gets) = 2
       /\ WaitBetweenQueries
       /\ Returned(Gets[2], OK)

\* C2: when the first and the second status query are both answered 404, a
\* finished run has made exactly two GETs and ends with the second query's
\* 404 as its outcome.
C2_NotFoundTwice ==
    (/\ FirstQueryNotFound
     /\ Len(Gets) >= 2 => IsNotFound(Gets[2].reply))
    => /\ Len(Gets) = 2
       /\ Returned(Gets[2], NOT_FOUND)

\* C3: a POST answered with a status other than 202 makes doPostTransfer
\* return exactly that status code, and is the only HTTP call of the run: no
\* second POST, no GET, and the run is over.
C3_RejectedPostIsFinal ==
    \A i \in DOMAIN calls :
        (/\ calls[i].method = "POST"
         /\ IsResponse(calls[i].reply) /\ calls[i].reply.status # ACCEPTED)
        => /\ Returned(calls[i], calls[i].reply.status)
           /\ postResponse.type = "int" /\ postResponse.val = calls[i].reply.status
           /\ Len(calls) = 1
           /\ pc = "done"

C3_Witness ==
    /\ pc = "done"
    /\ Len(calls) = 1
    /\ IsResponse(calls[1].reply) /\ calls[1].reply.status = 500
    /\ Returned(calls[1], 500)

\* C4: a POST answered 202 without a location header makes doPostTransfer
\* raise: it returns no status location, the error reaches the handler, and
\* no status GET is issued.
C4_AcceptedWithoutLocationFails ==
    \A i \in DOMAIN calls :
        (/\ calls[i].method = "POST"
         /\ IsResponse(calls[i].reply) /\ calls[i].reply.status = ACCEPTED
         /\ calls[i].reply.location.type = "NoneType")
        => /\ calls[i].result.exc # "none"
           /\ e = calls[i].result.exc
           /\ postResponse.type = "NoneType"
           /\ pc \in {"except", "done"}
           /\ Len(calls) = 1

C4_Witness ==
    /\ pc = "done"
    /\ Len(calls) = 1
    /\ IsResponse(calls[1].reply) /\ calls[1].reply.status = ACCEPTED
    /\ calls[1].reply.location.type = "NoneType"
    /\ e = "TypeError"
    /\ Len(out) > 0 /\ out[Len(out)] = "TypeError"

\* C5: a POST answered 202 with location L makes doPostTransfer return L
\* unchanged, and every status GET of the run targets L followed by
\* "?attributes=*".
C5_StatusUrlIsLocation ==
    \A i \in DOMAIN calls :
        (calls[i].method = "POST" /\ AcceptedAt(calls[i].reply))
        => /\ calls[i].result.exc = "none"
           /\ calls[i].result.ret.type = "str"
           /\ calls[i].result.ret.val = calls[i].reply.location.val
           /\ postResponse.type = "str"
           /\ postResponse.val = calls[i].reply.location.val
           /\ \A j \in DOMAIN calls :
                calls[j].method = "GET"
                => calls[j].url = calls[i].reply.location.val \o "?attributes=*"

C5_Witness ==
    /\ Len(Posts) = 1 /\ AcceptedAt(Posts[1].reply)
    /\ Posts[1].reply.location.val = "/ibmmq/rest/v2/admin/mft/transfer/414d51"
    /\ Len(Gets) = 1
    /\ Gets[1].url = "/ibmmq/rest/v2/admin/mft/transfer/414d51?attributes=*"

\* C6: a status query answered with a status other than 200 makes
\* doGetTransferStatus return that status code, without raising.
C6_NonOkStatusReturned ==
    \A i \in DOMAIN calls :
        (/\ calls[i].method = "GET"
         /\ IsResponse(calls[i].reply) /\ calls[i].reply.status # OK)
        => Returned(calls[i], calls[i].reply.status)

FailedCall(c) ==
    \/ c.result.exc # "none"
    \/ c.method = "POST" /\ ~AcceptedAt(c.reply)
    \/ c.method = "GET" /\ HasTransfer(c.reply) /\ StateOf(c.reply) = "failed"

\* C8: a run issues at most one POST and at most two status GETs, and after
\* a call that failed or was rejected no POST follows.
C8_BoundedCalls ==
    /\ Len(Posts) <= 1
    /\ Len(Gets) <= 2
    /\ \A i, j \in DOMAIN calls :
         (i < j /\ FailedCall(calls[i])) => calls[j].method # "POST"

C8_Witness ==
    /\ pc = "done"
    /\ Len(Posts) = 1 /\ Len(Gets) = 1
    /\ FailedCall(Gets[1]) /\ e # "none"

\* a 200 answer whose body is not JSON or has no transfer[0] entry
Malformed(reply) ==
    IsResponse(reply) /\ reply.status = OK /\ ~HasTransfer(reply)

\* C9: a status query answered 200 with a body that is not well-formed JSON
\* or lacks transfer[0] raises; the error ends the run: the query is not
\* taken for a not-found one, no wait happens and no further call is made.
C9_MalformedBodyEndsRun ==
    \A i \in DOMAIN calls :
        (calls[i].method = "GET" /\ Malformed(calls[i].reply))
        => /\ calls[i].result.exc \in {"JSONDecodeError", "KeyError", "IndexError"}
           /\ e = calls[i].result.exc
           /\ i = Len(calls)
           /\ Len(Waits) = 0
           /\ pc \in {"except", "done"}

C9_Witness ==
    /\ pc = "done"
    /\ Len(Gets) = 1 /\ Gets[1].reply \in [kind : {"response"}, status : {OK},
                                           body : {[wellFormed |-> FALSE]}]
    /\ e = "JSONDecodeError"
    /\ out[Len(out)] = "JSONDecodeError"

\* the lines print("Error: " + description) can print
ErrorLines == {"Error: " \o d : d \in Descriptions}
Surfaced(lines) == SelectSeq(lines, LAMBDA l : l \in ErrorLines)

\* the descriptions of the failed items, in item order
RECURSIVE FailedDescriptions(_)
FailedDescriptions(items) ==
    IF Len(items) = 0 THEN <<>>
    ELSE (IF items[1].status.state = "failed" /\ "description" \in DOMAIN items[1].status
          THEN <<"Error: " \o items[1].status.description>>
          ELSE <<>>) \o FailedDescriptions(Tail(items))

ExpectedDescriptions(t) ==
    IF t.status.state = "failed" /\ "transferSet" \in DOMAIN t
    THEN FailedDescriptions(t.transferSet.item)
    ELSE <<>>

\* C10: for a 200 answer, the failure descriptions a status query surfaces
\* are exactly, in item order, the descriptions of the failed items of
\* transfer[0].transferSet.item when the overall state is "failed", and none
\* otherwise.
C10_FailedDescriptionsSurfaced ==
    \A i \in DOMAIN calls :
        (calls[i].method = "GET" /\ HasTransfer(calls[i].reply))
        => Surfaced(calls[i].result.out)
             = ExpectedDescriptions(calls[i].reply.body.doc.transfer[1])

\* every field the transfer request is built from is non-empty
Valid(cfg) == \A f \in RequiredFields : cfg[f] # ""

\* C11: with an empty required configuration field (each one on its own),
\* building the request fails with InvalidDescriptor and the run makes no
\* network call, neither POST nor GET.
C11_InvalidDescriptorRejected ==
    ~Valid(config)
    => /\ Len(calls) = 0
       /\ pc \in {"build", "except", "done"}
       /\ pc # "build" => e = "InvalidDescriptor"

\* the headers of a request made with basic authentication
BasicAuthHeaders(userId, password) ==
    ("Content-type" :> "application/json")
    @@ ("ibm-mq-rest-csrf-token" :> "")
    @@ ("Authorization" :> "Basic " \o B64Text(bytes(userId \o <<":">> \o password)))

\* C12: the POST and every GET carry the same three headers: the JSON content
\* type, an empty ibm-mq-rest-csrf-token, and an Authorization that is
\* "Basic " followed by the base64 text of "userId:password" and nothing else.
C12_BasicAuthHeaders ==
    \A i \in DOMAIN calls :
        calls[i].headers = BasicAuthHeaders(config.mqWebUserId, config.mqWebPassword)

C14_GetOnlyAfterAcceptedPost ==
    /\ Len(calls) >= 1 => calls[1].method = "POST"
    /\ \A j \in DOMAIN calls :
         calls[j].method = "GET"
         => /\ j > 1
            /\ Len(Posts) = 1
            /\ AcceptedAt(calls[1].reply)
            /\ calls[1].result.exc = "none"
            /\ calls[1].result.ret = calls[1].reply.location

C14_Witness ==
    /\ Len(calls) = 2
    /\ calls[1].method = "POST" /\ AcceptedAt(calls[1].reply)
    /\ calls[2].method = "GET"
    /\ calls[2].reply.kind = "response"

\* C15: a status query answered 200 with a body of the documented shape
\* (transfer[0] with id and status.state, optional transferSet, optional item
\* description) returns 200, whatever the state and also when a failed item
\* has no description.
C15_ShapedBodyResolves ==
    \A i \in DOMAIN calls :
        (calls[i].method = "GET" /\ HasTransfer(calls[i].reply))
        => Returned(calls[i], OK)

\* the error that ended the run was printed by the handler of lines 179-181
Handled == e # "none" => (Len(out) > 0 /\ out[Len(out)] = e)

\* C16: every run ends: whatever the server answers and whichever call fails,
\* the workflow reaches its end after at most three HTTP calls and stays
\* there, every error raised on the way having been caught by the handler.
C16_Terminates == <>[](pc = "done" /\ Len(calls) <= 3 /\ Handled)

C16_Witness ==
    /\ pc = "done"
    /\ Len(calls) = 2
    /\ calls[2].method = "GET" /\ calls[2].reply.kind = "responseFail"
    /\ e = "HTTPException"
    /\ Handled

====
